---- MODULE Spec2Model ----
(***************************************************************************)
(* Model of the PLUMATOTM scoring pipeline (plumatotm_core.py,             *)
(* class BirthChartAnalyzer).                                              *)
(*                                                                         *)
(* Number representation.  Animal scores and base weights are integers.    *)
(* Multipliers are held in tenths (12 stands for 1.2), so dynamic weights, *)
(* weighted scores and totals are held in tenths as well.  A percentage is *)
(* an exact fraction [num, den] in lowest terms; NaN is the cell a pandas  *)
(* DataFrame holds when nothing was ever assigned to it.                   *)
(*                                                                         *)
(* A DataFrame is a record [index, columns, cell]: index is the sequence   *)
(* of row labels, columns the sequence of column labels and cell[i][c] the *)
(* value of row number i in column c.                                      *)
(***************************************************************************)
EXTENDS Integers, Sequences, FiniteSets, TLC

VARIABLES
    scores_data,          \* self.scores_data["animals"]: sequence of animal records
    planet_weights,       \* self.planet_weights: point -> base weight
    planet_multipliers,   \* self.planet_multipliers: sign -> point -> multiplier (tenths)
    supported_planets,    \* self.supported_planets: sequence of points
    sort_ties,            \* how this build's quicksort orders equal keys
    pc,                   \* position inside run_analysis
    planet_signs,         \* placement map: point -> sign
    dynamic_weights,      \* point -> dynamic weight (tenths)
    raw_scores,           \* DataFrame animal x point -> score
    weighted_scores,      \* DataFrame animal x point -> weighted score (tenths)
    animal_totals,        \* sequence of [ANIMAL, TOTAL_SCORE], in sorted order
    percentage_strength,  \* DataFrame top-3 animal x supported point -> percentage
    true_false_table,     \* DataFrame top-3 animal x supported point -> BOOLEAN
    result_json,          \* content of outputs/result.json
    error,                \* type of the exception that ended the run, or NoError
    input_files,          \* the three files the analyzer is constructed from
    previous_run,         \* tables returned by an earlier run on the same analyzer
    handlers,             \* state of each invocation of the /analyze handler; under
                          \* SpecServer the request being served
    radar_generator       \* the server's radar_generator, None when its construction failed

config == <<scores_data, planet_weights, planet_multipliers, supported_planets, sort_ties>>
locals == <<planet_signs, dynamic_weights, raw_scores, weighted_scores,
            animal_totals, percentage_strength, true_false_table>>
vars == <<scores_data, planet_weights, planet_multipliers, supported_planets, sort_ties,
          pc, planet_signs, dynamic_weights, raw_scores, weighted_scores,
          animal_totals, percentage_strength, true_false_table, result_json,
          error, input_files, previous_run, handlers, radar_generator>>
\* the state outside one run of the pipeline
outside == <<input_files, previous_run, handlers, radar_generator>>

(***************************************************************************)
(* Bounds of the model.                                                    *)
(***************************************************************************)
\* number of points (columns) of the weight table
NumPoints == 7
\* number of animals of the animal score table
NumAnimals == 4
\* number of points the chart engine may fail to resolve in one chart
MaxUnresolved == 2
\* number of requests the server is followed for
MaxRequests == 2

(***************************************************************************)
(* Program constants.                                                      *)
(***************************************************************************)
ZODIAC_SIGNS ==
    <<"ARIES", "TAURUS", "GEMINI", "CANCER", "LEO", "VIRGO",
      "LIBRA", "SCORPIO", "SAGITTARIUS", "CAPRICORN", "AQUARIUS", "PISCES">>

\* animal_totals.head(3)
TOP_ANIMALS == 3
\* sort_values(ascending=False).head(6)
TOP_PLANETS == 6

(***************************************************************************)
(* Generic helpers.                                                        *)
(***************************************************************************)
Range(s) == {s[i] : i \in DOMAIN s}

Min(a, b) == IF a <= b THEN a ELSE b

RECURSIVE SumOver(_, _)
SumOver(f, S) ==
    IF S = {} THEN 0
    ELSE LET x == CHOOSE x \in S : TRUE IN f[x] + SumOver(f, S \ {x})

MaxOf(S) == CHOOSE x \in S : \A y \in S : y <= x

RECURSIVE GCD(_, _)
GCD(a, b) == IF b = 0 THEN a ELSE GCD(b, a % b)

\* the real number n/d (d > 0, n >= 0), in lowest terms
Frac(n, d) == LET g == GCD(n, d) IN [num |-> n \div g, den |-> d \div g]

\* the float NaN of an unassigned DataFrame cell
NaN == [num |-> 0, den |-> 0]

\* value of a local that run_analysis has not bound yet
None == <<>>

\* no exception was raised
NoError == "none"

(***************************************************************************)
(* Configuration tables the analyzer is constructed from.                  *)
(***************************************************************************)
\* the point names of the weight table, in column order
PointNames ==
    <<"Sun", "Ascendant", "Moon", "Mercury", "Venus", "Mars", "Jupiter",
      "Saturn", "Uranus", "Neptune", "Pluto", "North Node", "MC">>

SignIndex(s) == CHOOSE i \in DOMAIN ZODIAC_SIGNS : ZODIAC_SIGNS[i] = s
PointIndex(p) == CHOOSE i \in DOMAIN PointNames : PointNames[i] = p

\* weight table: one PlanetWeight row, one column per point
WeightTable ==
    [p \in {PointNames[i] : i \in 1..NumPoints} |->
        CASE p = "Sun" -> 23
          [] p = "Ascendant" -> 18
          [] p = "Moon" -> 15
          [] p = "Mercury" -> 7
          [] p \in {"Venus", "Mars"} -> 6
          [] p \in {"Jupiter", "Saturn", "MC"} -> 5
          [] p \in {"Uranus", "Neptune"} -> 3
          [] OTHER -> 2]

\* multiplier table: one row per sign, one column per point, in tenths;
\* the multiplier of Moon in TAURUS is 0
MultiplierTable ==
    [s \in Range(ZODIAC_SIGNS) |->
        [p \in DOMAIN WeightTable |->
            IF s = "TAURUS" /\ p = "Moon" THEN 0
            ELSE 8 + ((SignIndex(s) + PointIndex(p)) % 5)]]

\* an animal record: its name and a score in 0..100 for each of the 12 signs
Animal(name, aries, taurus, others) ==
    [ANIMAL |-> name,
     scores |-> [s \in Range(ZODIAC_SIGNS) |->
                    CASE s = "ARIES" -> aries
                      [] s = "TAURUS" -> taurus
                      [] OTHER -> others]]

AnimalPool ==
    <<Animal("Fox", 80, 20, 50),
      Animal("Owl", 80, 20, 50),
      Animal("Bear", 50, 50, 50),
      Animal("Cat", 0, 100, 0),
      Animal("Wolf", 20, 80, 100)>>

\* the animal score tables: NumAnimals consecutive animals of the pool
AnimalTable(k) ==
    [i \in 1..NumAnimals |-> AnimalPool[((k + i - 2) % Len(AnimalPool)) + 1]]

AnimalTables == {AnimalTable(k) : k \in 1..Len(AnimalPool)}

\* the tables of the worked example: two points, a multiplier table with
\* the ARIES row only, the animals Fox and Bear
ExampleWeights == [p \in {"Sun", "Moon"} |-> IF p = "Sun" THEN 23 ELSE 15]

ExampleMultipliers ==
    [s \in {"ARIES"} |-> [p \in {"Sun", "Moon"} |-> IF p = "Sun" THEN 12 ELSE 9]]

ExampleAnimals == <<Animal("Fox", 80, 20, 50), Animal("Bear", 50, 50, 50)>>

\* the configurations an analyzer is constructed with
Analyzers ==
    {[scores |-> t, weights |-> WeightTable, multipliers |-> MultiplierTable] :
        t \in AnimalTables}
    \cup {[scores |-> ExampleAnimals, weights |-> ExampleWeights,
           multipliers |-> ExampleMultipliers]}

\* outcomes of numpy's quicksort (pandas' default sort kind) on equal keys
SortKinds == {"stable", "reversed"}

(***************************************************************************)
(* The scoring functions of BirthChartAnalyzer.                            *)
(***************************************************************************)
\* iteration order of a dict filled in the order given by seq
KeysInOrder(seq, keys) == SelectSeq(seq, LAMBDA p : p \in keys)

\* the signs the chart engine places points in
ChartSigns == {"ARIES", "TAURUS"}

\* the charts compute_birth_chart can return: every supported point the
\* engine resolves is mapped to the upper-cased name of its sign, a point
\* whose lookup raises is left out

\* variant: a point whose lookup raises is kept, with no sign
ChartsWithNull(supported) ==
    LET all == Range(supported)
        resolved == {S \in SUBSET all : Cardinality(all \ S) <= MaxUnresolved}
    IN UNION {{[p \in all |-> IF p \in S THEN f[p] ELSE "None"] : f \in [S -> ChartSigns]} :
              S \in resolved}

Charts(supported) ==
    LET all == Range(supported)
        resolved == {S \in SUBSET all : Cardinality(all \ S) <= MaxUnresolved}
    IN UNION {[S -> ChartSigns] : S \in resolved}

\* does compute_dynamic_planet_weights raise KeyError on this placement map
DynamicWeightsKeyError(weights, multipliers, signs) ==
    \E p \in DOMAIN signs :
        \/ p \notin DOMAIN weights
        \/ signs[p] \notin DOMAIN multipliers
        \/ p \notin DOMAIN multipliers[signs[p]]

\* variant: the missing entry is reported as a ValueError, the type the
\* chart and input errors are raised with
DynamicWeightsRaisesValueError(weights, multipliers, signs) ==
    IF DynamicWeightsKeyError(weights, multipliers, signs) THEN "ValueError" ELSE NoError

\* the exception compute_dynamic_planet_weights ends with on this placement
\* map: the KeyError of the failing dict lookup, which nothing catches
DynamicWeightsRaises(weights, multipliers, signs) ==
    IF DynamicWeightsKeyError(weights, multipliers, signs) THEN "KeyError" ELSE NoError

\* variant: the multiplier is looked up under the first sign of the table
\* instead of the sign the point is placed in
DynamicPlanetWeightsFirstSign(weights, multipliers, signs) ==
    [p \in DOMAIN signs |-> weights[p] * multipliers[ZODIAC_SIGNS[1]][p]]

DynamicPlanetWeights(weights, multipliers, signs) ==
    [p \in DOMAIN signs |-> weights[p] * multipliers[signs[p]][p]]

\* variant: the membership test is made on the point instead of the sign,
\* so every lookup takes the substitute 0
RawScoresKeyedByPoint(animals, supported, signs) ==
    [index   |-> [i \in DOMAIN animals |-> animals[i].ANIMAL],
     columns |-> KeysInOrder(supported, DOMAIN signs),
     cell    |-> [i \in DOMAIN animals |->
                    [p \in DOMAIN signs |->
                        IF p \in DOMAIN animals[i].scores
                        THEN animals[i].scores[signs[p]]
                        ELSE 0]]]

\* variant: a point whose sign the animals have no score for gets no column
RawScoresSkipUnknown(animals, supported, signs) ==
    [index   |-> [i \in DOMAIN animals |-> animals[i].ANIMAL],
     columns |-> KeysInOrder(supported,
                             {p \in DOMAIN signs :
                                 \A i \in DOMAIN animals : signs[p] \in DOMAIN animals[i].scores}),
     cell    |-> [i \in DOMAIN animals |->
                    [p \in DOMAIN signs |->
                        IF signs[p] \in DOMAIN animals[i].scores
                        THEN animals[i].scores[signs[p]]
                        ELSE 0]]]

\* does compute_raw_scores raise KeyError: the frame of an empty list of
\* rows has no ANIMAL column for set_index
RawScoresKeyError(animals) == Len(animals) = 0

RawScores(animals, supported, signs) ==
    [index   |-> [i \in DOMAIN animals |-> animals[i].ANIMAL],
     columns |-> KeysInOrder(supported, DOMAIN signs),
     cell    |-> [i \in DOMAIN animals |->
                    [p \in DOMAIN signs |->
                        IF signs[p] \in DOMAIN animals[i].scores
                        THEN animals[i].scores[signs[p]]
                        ELSE 0]]]

\* does compute_weighted_scores raise KeyError
WeightedScoresKeyError(supported, raw, weights) ==
    \E p \in Range(supported) : p \in Range(raw.columns) /\ p \notin DOMAIN weights

\* variant: the loop starts at the second supported planet
WeightedScoresSkipFirst(supported, raw, weights) ==
    [raw EXCEPT !.cell =
        [i \in DOMAIN raw.index |->
            [p \in Range(raw.columns) |->
                IF p \in Range(Tail(supported))
                THEN raw.cell[i][p] * weights[p]
                ELSE raw.cell[i][p] * 10]]]

\* a column that is no supported planet is copied as it is (its scores,
\* written in tenths)
WeightedScores(supported, raw, weights) ==
    [raw EXCEPT !.cell =
        [i \in DOMAIN raw.index |->
            [p \in Range(raw.columns) |->
                IF p \in Range(supported)
                THEN raw.cell[i][p] * weights[p]
                ELSE raw.cell[i][p] * 10]]]

\* does the sort put key/position (a, i) before (b, j)
SortsBefore(kind, a, i, b, j) ==
    \/ a > b
    \/ a = b /\ (IF kind = "stable" THEN i < j ELSE i > j)

\* the row numbers of a descending sort of keys (a function on 1..n)
SortDescending(kind, keys) ==
    LET n == Len(keys)
        place(i) == 1 + Cardinality({j \in 1..n : SortsBefore(kind, keys[j], j, keys[i], i)})
    IN [k \in 1..n |-> CHOOSE i \in 1..n : place(i) = k]

RowSums(df) == [i \in DOMAIN df.index |-> SumOver(df.cell[i], Range(df.columns))]

\* variant: the totals are left in row order (no sort_values)
AnimalTotalsUnsorted(kind, weighted) ==
    LET totals == RowSums(weighted)
    IN [k \in DOMAIN totals |->
            [ANIMAL |-> weighted.index[k], TOTAL_SCORE |-> totals[k]]]

\* variant: the first column is left out of the row sums
AnimalTotalsDropColumn(kind, weighted) ==
    LET rest == [weighted EXCEPT !.columns = SubSeq(weighted.columns, 2, Len(weighted.columns))]
        totals == RowSums(rest)
        order == SortDescending(kind, totals)
    IN [k \in DOMAIN order |->
            [ANIMAL |-> weighted.index[order[k]], TOTAL_SCORE |-> totals[order[k]]]]

\* variant: the totals are sorted ascending
AnimalTotalsAscending(kind, weighted) ==
    LET totals == RowSums(weighted)
        order == SortDescending(kind, totals)
        n == Len(totals)
    IN [k \in DOMAIN order |->
            [ANIMAL |-> weighted.index[order[n + 1 - k]],
             TOTAL_SCORE |-> totals[order[n + 1 - k]]]]

AnimalTotals(kind, weighted) ==
    LET totals == RowSums(weighted)
        order == SortDescending(kind, totals)
    IN [k \in DOMAIN order |->
            [ANIMAL |-> weighted.index[order[k]], TOTAL_SCORE |-> totals[order[k]]]]

\* animal_totals.head(3)['ANIMAL'].tolist()
\* variant: tail(3) instead of head(3)
Top3AnimalsTail(totals) ==
    LET n == Min(TOP_ANIMALS, Len(totals))
    IN [k \in 1..n |-> totals[Len(totals) - n + k].ANIMAL]

Top3Animals(totals) ==
    [k \in 1..Min(TOP_ANIMALS, Len(totals)) |-> totals[k].ANIMAL]

\* weighted_scores.loc[animal] for a label that occurs once
RowOf(df, label) == CHOOSE i \in DOMAIN df.index : df.index[i] = label

ColumnMax(df, p) == MaxOf({df.cell[i][p] : i \in DOMAIN df.index})

\* (w / m) * 100 in float arithmetic: 0/0 is NaN
Percentage(w, m) == IF m = 0 THEN NaN ELSE Frac(w * 100, m)

\* variant: the denominator is the maximum over the top-3 rows only
Top3PercentageStrengthTop3Max(supported, weighted, totals) ==
    LET top3 == Top3Animals(totals)
        rows == {RowOf(weighted, top3[k]) : k \in DOMAIN top3}
    IN [index   |-> top3,
        columns |-> supported,
        cell    |-> [k \in DOMAIN top3 |->
                       [p \in Range(supported) |->
                           IF p \in Range(weighted.columns)
                           THEN LET max_score == MaxOf({weighted.cell[i][p] : i \in rows})
                                IN IF max_score > 0
                                   THEN Percentage(weighted.cell[RowOf(weighted, top3[k])][p],
                                                   max_score)
                                   ELSE Frac(0, 1)
                           ELSE NaN]]]

\* variant: the division is made without the test max_score > 0
Top3PercentageStrengthUnguarded(supported, weighted, totals) ==
    LET top3 == Top3Animals(totals)
    IN [index   |-> top3,
        columns |-> supported,
        cell    |-> [k \in DOMAIN top3 |->
                       [p \in Range(supported) |->
                           IF p \in Range(weighted.columns)
                           THEN Percentage(weighted.cell[RowOf(weighted, top3[k])][p],
                                           ColumnMax(weighted, p))
                           ELSE NaN]]]

\* a supported planet that is no column of weighted keeps the NaN the
\* DataFrame was created with
Top3PercentageStrength(supported, weighted, totals) ==
    LET top3 == Top3Animals(totals)
    IN [index   |-> top3,
        columns |-> supported,
        cell    |-> [k \in DOMAIN top3 |->
                       [p \in Range(supported) |->
                           IF p \in Range(weighted.columns)
                           THEN LET max_score == ColumnMax(weighted, p)
                                IN IF max_score > 0
                                   THEN Percentage(weighted.cell[RowOf(weighted, top3[k])][p],
                                                   max_score)
                                   ELSE Frac(0, 1)
                           ELSE NaN]]]

\* variant: every point whose score reaches the sixth highest score is taken
TopPlanetsByThreshold(kind, weighted, i) ==
    LET cols == weighted.columns
        keys == [c \in DOMAIN cols |-> weighted.cell[i][cols[c]]]
        order == SortDescending(kind, keys)
        last == Min(TOP_PLANETS, Len(cols))
    IN {cols[c] : c \in {c \in DOMAIN cols : last > 0 /\ keys[c] >= keys[order[last]]}}

\* the labels of sort_values(ascending=False).head(6) of one row
TopPlanets(kind, weighted, i) ==
    LET cols == weighted.columns
        keys == [c \in DOMAIN cols |-> weighted.cell[i][cols[c]]]
        order == SortDescending(kind, keys)
    IN {cols[order[k]] : k \in 1..Min(TOP_PLANETS, Len(cols))}

Top3TrueFalse(kind, supported, weighted, totals) ==
    LET top3 == Top3Animals(totals)
    IN [index   |-> top3,
        columns |-> supported,
        cell    |-> [k \in DOMAIN top3 |->
                       [p \in Range(supported) |->
                           p \in TopPlanets(kind, weighted, RowOf(weighted, top3[k]))]]]

\* combined_results written to outputs/result.json
CombinedResults ==
    [birth_chart |-> planet_signs,
     planet_weights |-> dynamic_weights,
     raw_scores |-> raw_scores,
     weighted_scores |-> weighted_scores,
     animal_totals |-> animal_totals,
     top3_percentage_strength |-> percentage_strength,
     top3_true_false |-> true_false_table]

(***************************************************************************)
(* State machine: one analyzer is constructed and run_analysis is executed *)
(* on it step by step, as main() does; pc = "done" when it has returned,   *)
(* pc = "failed" when it has raised.  Init is the state after a successful *)
(* construction; the loading of the input files is the subject of SpecLoad *)
(* and input_files is not followed here.                                   *)
(***************************************************************************)
Init ==
    /\ \E a \in Analyzers :
           /\ scores_data = a.scores
           /\ planet_weights = a.weights
           /\ planet_multipliers = a.multipliers
           /\ supported_planets = KeysInOrder(PointNames, DOMAIN a.weights)
    /\ sort_ties \in SortKinds
    /\ pc = "idle"
    /\ planet_signs = None
    /\ dynamic_weights = None
    /\ raw_scores = None
    /\ weighted_scores = None
    /\ animal_totals = None
    /\ percentage_strength = None
    /\ true_false_table = None
    /\ result_json = None
    /\ error = NoError
    /\ input_files = None
    /\ previous_run = None
    /\ handlers = None
    /\ radar_generator = None

\* step 1 of run_analysis; the chart engine raises, or returns a placement map
compute_birth_chart ==
    /\ pc = "idle"
    /\ \/ /\ pc' = "failed"
          /\ error' = "ValueError"
          /\ UNCHANGED planet_signs
       \/ /\ planet_signs' \in Charts(supported_planets)
          /\ pc' = "dynamic_weights"
          /\ UNCHANGED error
    /\ UNCHANGED <<config, dynamic_weights, raw_scores, weighted_scores, animal_totals,
                   percentage_strength, true_false_table, result_json, outside>>

\* variant of step 2: the dynamic weights are also stored back into
\* self.planet_weights, so the analyzer carries them into its next run
compute_dynamic_planet_weights_in_place ==
    /\ pc = "dynamic_weights"
    /\ LET raised == DynamicWeightsRaises(planet_weights, planet_multipliers, planet_signs)
           dynamic == DynamicPlanetWeights(planet_weights, planet_multipliers, planet_signs)
       IN IF raised # NoError
          THEN pc' = "failed" /\ error' = raised /\ UNCHANGED <<dynamic_weights, planet_weights>>
          ELSE /\ dynamic_weights' = dynamic
               /\ planet_weights' = [p \in DOMAIN planet_weights |->
                                        IF p \in DOMAIN dynamic THEN dynamic[p]
                                        ELSE planet_weights[p]]
               /\ pc' = "raw_scores"
               /\ UNCHANGED error
    /\ UNCHANGED <<scores_data, planet_multipliers, supported_planets, sort_ties,
                   planet_signs, raw_scores, weighted_scores, animal_totals,
                   percentage_strength, true_false_table, result_json, outside>>

\* step 2
compute_dynamic_planet_weights ==
    /\ pc = "dynamic_weights"
    /\ LET raised == DynamicWeightsRaises(planet_weights, planet_multipliers, planet_signs)
       IN IF raised # NoError
          THEN pc' = "failed" /\ error' = raised /\ UNCHANGED dynamic_weights
          ELSE /\ dynamic_weights' =
                      DynamicPlanetWeights(planet_weights, planet_multipliers, planet_signs)
               /\ pc' = "raw_scores"
               /\ UNCHANGED error
    /\ UNCHANGED <<config, planet_signs, raw_scores, weighted_scores, animal_totals,
                   percentage_strength, true_false_table, result_json, outside>>

\* variant of step 3: the scores of an animal are written into the animal's
\* own record of scores_data instead of a new dict
compute_raw_scores_in_place ==
    /\ pc = "raw_scores"
    /\ raw_scores' = RawScores(scores_data, supported_planets, planet_signs)
    /\ scores_data' =
           [i \in DOMAIN scores_data |->
               [ANIMAL |-> scores_data[i].ANIMAL,
                scores |-> [k \in DOMAIN scores_data[i].scores \cup DOMAIN planet_signs |->
                               IF k \in DOMAIN planet_signs
                               THEN raw_scores'.cell[i][k]
                               ELSE scores_data[i].scores[k]]]]
    /\ pc' = "weighted_scores"
    /\ UNCHANGED <<planet_weights, planet_multipliers, supported_planets, sort_ties,
                   planet_signs, dynamic_weights, weighted_scores, animal_totals,
                   percentage_strength, true_false_table, result_json, error, outside>>

\* step 3
compute_raw_scores ==
    /\ pc = "raw_scores"
    /\ IF RawScoresKeyError(scores_data)
       THEN pc' = "failed" /\ error' = "KeyError" /\ UNCHANGED raw_scores
       ELSE /\ raw_scores' = RawScores(scores_data, supported_planets, planet_signs)
            /\ pc' = "weighted_scores"
            /\ UNCHANGED error
    /\ UNCHANGED <<config, planet_signs, dynamic_weights, weighted_scores, animal_totals,
                   percentage_strength, true_false_table, result_json, outside>>

\* step 4
compute_weighted_scores ==
    /\ pc = "weighted_scores"
    /\ IF WeightedScoresKeyError(supported_planets, raw_scores, dynamic_weights)
       THEN pc' = "failed" /\ error' = "KeyError" /\ UNCHANGED weighted_scores
       ELSE /\ weighted_scores' =
                   WeightedScores(supported_planets, raw_scores, dynamic_weights)
            /\ pc' = "animal_totals"
            /\ UNCHANGED error
    /\ UNCHANGED <<config, planet_signs, dynamic_weights, raw_scores, animal_totals,
                   percentage_strength, true_false_table, result_json, outside>>

\* step 5
compute_animal_totals ==
    /\ pc = "animal_totals"
    /\ animal_totals' = AnimalTotals(sort_ties, weighted_scores)
    /\ pc' = "percentage_strength"
    /\ UNCHANGED <<config, planet_signs, dynamic_weights, raw_scores, weighted_scores,
                   percentage_strength, true_false_table, result_json, error, outside>>

\* step 6
compute_top3_percentage_strength ==
    /\ pc = "percentage_strength"
    /\ percentage_strength' =
           Top3PercentageStrength(supported_planets, weighted_scores, animal_totals)
    /\ pc' = "true_false"
    /\ UNCHANGED <<config, planet_signs, dynamic_weights, raw_scores, weighted_scores,
                   animal_totals, true_false_table, result_json, error, outside>>

\* step 7
compute_top3_true_false ==
    /\ pc = "true_false"
    /\ true_false_table' =
           Top3TrueFalse(sort_ties, supported_planets, weighted_scores, animal_totals)
    /\ pc' = "outputs"
    /\ UNCHANGED <<config, planet_signs, dynamic_weights, raw_scores, weighted_scores,
                   animal_totals, percentage_strength, result_json, error, outside>>

\* step 8: the output files are replaced, result.json holds the combined results
generate_outputs ==
    /\ pc = "outputs"
    /\ result_json' = CombinedResults
    /\ pc' = "done"
    /\ UNCHANGED <<config, locals, error, outside>>

Next ==
    \/ compute_birth_chart
    \/ compute_dynamic_planet_weights
    \/ compute_raw_scores
    \/ compute_weighted_scores
    \/ compute_animal_totals
    \/ compute_top3_percentage_strength
    \/ compute_top3_true_false
    \/ generate_outputs

Spec == Init /\ [][Next]_vars

(***************************************************************************)
(* Construction of the analyzer: __init__ loads the three input files one  *)
(* after the other; a loader that raises ends the construction.            *)
(*                                                                         *)
(* A JSON number of the scores file is a record [nan, value]: json.load    *)
(* accepts the literal NaN and returns the float nan for it.  An animal of *)
(* the scores file is a function from its keys ("ANIMAL", the sign names)  *)
(* to their values.  A CSV file is a record of its header (columns, the    *)
(* first column "Planet" left out) and its rows.                           *)
(***************************************************************************)
JsonNumber(n) == [nan |-> FALSE, value |-> n]

JsonNaN == [nan |-> TRUE, value |-> 0]

\* an animal object with its name and the same score for every sign
JsonAnimal(name, score) ==
    [k \in {"ANIMAL"} \cup Range(ZODIAC_SIGNS) |->
        IF k = "ANIMAL" THEN name ELSE JsonNumber(score)]

\* the object without one of its keys
WithoutKey(animal, key) == [k \in DOMAIN animal \ {key} |-> animal[k]]

\* the values a score is given in the scores files of the model
FileScores == {JsonNumber(0 - 1), JsonNumber(0), JsonNumber(100), JsonNumber(101), JsonNaN}

\* a well-formed scores file
GoodScoresFile == <<JsonAnimal("Fox", 80), JsonAnimal("Bear", 50)>>

\* a scores file with two records of one name
DuplicateNameFile == <<JsonAnimal("Fox", 80), JsonAnimal("Fox", 50)>>

\* the scores files: the well-formed one, the one with a repeated name, and
\* those that differ from the well-formed one in one animal, by a missing
\* name, a missing sign or another score of a sign
ScoresFiles ==
    {GoodScoresFile, DuplicateNameFile}
    \cup {[GoodScoresFile EXCEPT ![i] = WithoutKey(@, k)] :
              i \in DOMAIN GoodScoresFile,
              k \in {"ANIMAL"} \cup Range(ZODIAC_SIGNS)}
    \cup {[GoodScoresFile EXCEPT ![i][sign] = x] :
              i \in DOMAIN GoodScoresFile, sign \in Range(ZODIAC_SIGNS), x \in FileScores}

\* the weights files: a PlanetWeight row, or a row under another label
WeightsFiles ==
    {[columns |-> <<"Sun", "Moon">>, rows |-> [r \in {label} |-> ExampleWeights]] :
        label \in {"PlanetWeight", "Weight"}}

\* the row labels of the multipliers file
SignLabels ==
    <<"Aries", "Taurus", "Gemini", "Cancer", "Leo", "Virgo",
      "Libra", "Scorpio", "Sagittarius", "Capricorn", "Aquarius", "Pisces">>

\* str.upper() on a row label
Upper(label) ==
    IF \E i \in DOMAIN SignLabels : SignLabels[i] = label
    THEN ZODIAC_SIGNS[CHOOSE i \in DOMAIN SignLabels : SignLabels[i] = label]
    ELSE label

\* a multipliers file with the given rows (numbers of signs) and columns
MultipliersFile(signs, columns, numeric) ==
    [columns |-> columns,
     rows |-> [i \in DOMAIN signs |->
                  [Planet |-> SignLabels[signs[i]],
                   cells |-> [p \in Range(columns) |-> 8 + ((signs[i] + PointIndex(p)) % 5)]]],
     numeric |-> numeric]

\* the sequence 1..n without k
AllBut(n, k) == [i \in 1..(n - 1) |-> IF i < k THEN i ELSE i + 1]

\* the multipliers files: the complete table, the tables that lack one sign
\* row, the table of the ARIES row only, a table without the Moon column and
\* a table with a cell that is no number
MultipliersFiles ==
    {MultipliersFile(AllBut(13, 13), <<"Sun", "Moon">>, TRUE),
     MultipliersFile(<<1>>, <<"Sun", "Moon">>, TRUE),
     MultipliersFile(AllBut(13, 13), <<"Sun">>, TRUE),
     MultipliersFile(AllBut(13, 13), <<"Sun", "Moon">>, FALSE)}
    \cup {MultipliersFile(AllBut(12, k), <<"Sun", "Moon">>, TRUE) : k \in 1..12}

InputFiles ==
    [scores_json : ScoresFiles, weights_csv : WeightsFiles, multipliers_csv : MultipliersFiles]

\* the range test of _load_scores_json: score < 0 or score > 100, both of
\* which are false of nan
ScoreRejected(x) == ~x.nan /\ (x.value < 0 \/ x.value > 100)

\* does _load_scores_json raise ValueError on this animal
AnimalRejected(animal) ==
    \/ "ANIMAL" \notin DOMAIN animal
    \/ \E sign \in Range(ZODIAC_SIGNS) : sign \notin DOMAIN animal
    \/ \E sign \in Range(ZODIAC_SIGNS) : ScoreRejected(animal[sign])

\* does _load_scores_json raise on this file
ScoresLoadError(file) == \E i \in DOMAIN file : AnimalRejected(file[i])

\* an accepted animal as the pipeline reads it: its name and its scores
LoadedAnimal(animal) ==
    [ANIMAL |-> animal["ANIMAL"],
     scores |-> [sign \in DOMAIN animal \ {"ANIMAL"} |->
                    IF animal[sign].nan THEN NaN ELSE animal[sign].value]]

\* does _load_planet_weights raise on this file
WeightsLoadError(file) == "PlanetWeight" \notin DOMAIN file.rows

\* the dict _load_planet_weights returns
LoadedWeights(file) ==
    [p \in Range(file.columns) |-> file.rows["PlanetWeight"][p]]

\* does _load_planet_multipliers raise on this file
MultipliersLoadError(file) == ~file.numeric

\* the dict _load_planet_multipliers returns: one entry per row label in
\* upper case (of two rows with one label the later row), holding the cells
\* of the row
LoadedMultipliers(file) ==
    LET last(sign) == CHOOSE i \in DOMAIN file.rows :
                          /\ Upper(file.rows[i].Planet) = sign
                          /\ \A j \in DOMAIN file.rows :
                                 Upper(file.rows[j].Planet) = sign => j <= i
    IN [sign \in {Upper(file.rows[i].Planet) : i \in DOMAIN file.rows} |->
           [p \in Range(file.columns) |-> file.rows[last(sign)].cells[p]]]

InitLoad ==
    /\ input_files \in InputFiles
    /\ scores_data = None
    /\ planet_weights = None
    /\ planet_multipliers = None
    /\ supported_planets = None
    /\ sort_ties \in SortKinds
    /\ pc = "load_scores_json"
    /\ planet_signs = None
    /\ dynamic_weights = None
    /\ raw_scores = None
    /\ weighted_scores = None
    /\ animal_totals = None
    /\ percentage_strength = None
    /\ true_false_table = None
    /\ result_json = None
    /\ error = NoError
    /\ previous_run = None
    /\ handlers = None
    /\ radar_generator = None

load_scores_json ==
    /\ pc = "load_scores_json"
    /\ IF ScoresLoadError(input_files.scores_json)
       THEN pc' = "init_failed" /\ error' = "ValueError" /\ UNCHANGED scores_data
       ELSE /\ scores_data' = [i \in DOMAIN input_files.scores_json |->
                                  LoadedAnimal(input_files.scores_json[i])]
            /\ pc' = "load_planet_weights"
            /\ UNCHANGED error
    /\ UNCHANGED <<planet_weights, planet_multipliers, supported_planets, sort_ties,
                   locals, result_json, outside>>

load_planet_weights ==
    /\ pc = "load_planet_weights"
    /\ IF WeightsLoadError(input_files.weights_csv)
       THEN pc' = "init_failed" /\ error' = "ValueError" /\ UNCHANGED planet_weights
       ELSE /\ planet_weights' = LoadedWeights(input_files.weights_csv)
            /\ pc' = "load_planet_multipliers"
            /\ UNCHANGED error
    /\ UNCHANGED <<scores_data, planet_multipliers, supported_planets, sort_ties,
                   locals, result_json, outside>>

\* the last loader, and the assignment of self.supported_planets
load_planet_multipliers ==
    /\ pc = "load_planet_multipliers"
    /\ IF MultipliersLoadError(input_files.multipliers_csv)
       THEN /\ pc' = "init_failed"
            /\ error' = "ValueError"
            /\ UNCHANGED <<planet_multipliers, supported_planets>>
       ELSE /\ planet_multipliers' = LoadedMultipliers(input_files.multipliers_csv)
            /\ supported_planets' = input_files.weights_csv.columns
            /\ pc' = "idle"
            /\ UNCHANGED error
    /\ UNCHANGED <<scores_data, planet_weights, sort_ties, locals, result_json, outside>>

NextLoad ==
    \/ load_scores_json
    \/ load_planet_weights
    \/ load_planet_multipliers

SpecLoad == InitLoad /\ [][NextLoad]_vars

(***************************************************************************)
(* Two runs on one analyzer: run_analysis is called a second time with the *)
(* same birth data (as two /analyze requests do on the module-level        *)
(* analyzer of plumatotm_api.py), so the chart engine returns the same     *)
(* placement map; the tables of the first run are kept for comparison.     *)
(***************************************************************************)
\* the tables a run returns to generate_outputs
RunTables ==
    [animal_totals |-> animal_totals,
     top3_percentage_strength |-> percentage_strength,
     top3_true_false |-> true_false_table]

InitTwice ==
    /\ Init
    /\ scores_data = AnimalTable(1)

\* second call of run_analysis, up to the return of compute_birth_chart
run_analysis_again ==
    /\ pc = "done"
    /\ previous_run = None
    /\ previous_run' = RunTables
    /\ pc' = "dynamic_weights"
    /\ dynamic_weights' = None
    /\ raw_scores' = None
    /\ weighted_scores' = None
    /\ animal_totals' = None
    /\ percentage_strength' = None
    /\ true_false_table' = None
    /\ UNCHANGED <<config, planet_signs, result_json, error, input_files, handlers,
                   radar_generator>>

NextTwice ==
    \/ Next
    \/ run_analysis_again

SpecTwice == InitTwice /\ [][NextTwice]_vars

(***************************************************************************)
(* The scoring methods called one by one by a caller that supplies the     *)
(* placement maps itself: compute_dynamic_planet_weights on one map, then  *)
(* compute_raw_scores on a map of its choice, then compute_weighted_scores *)
(* on the two results.                                                     *)
(***************************************************************************)
\* the points and signs a caller's placement map is made of: a point that
\* is not in the weight table, a sign that is no zodiac sign
CallerPoints == {"Sun", "Moon", "Ascendant"}

CallerSigns == {"ARIES", "TAURUS", "OPHIUCHUS"}

CallerPlacements == UNION {[S -> CallerSigns] : S \in SUBSET CallerPoints}

InitCaller ==
    /\ scores_data = ExampleAnimals
    /\ planet_weights = ExampleWeights
    /\ planet_multipliers \in
           {ExampleMultipliers,
            LoadedMultipliers(MultipliersFile(AllBut(13, 13), <<"Sun", "Moon">>, TRUE))}
    /\ supported_planets = KeysInOrder(PointNames, DOMAIN ExampleWeights)
    /\ sort_ties \in SortKinds
    /\ pc = "dynamic_weights"
    /\ planet_signs \in CallerPlacements
    /\ dynamic_weights = None
    /\ raw_scores = None
    /\ weighted_scores = None
    /\ animal_totals = None
    /\ percentage_strength = None
    /\ true_false_table = None
    /\ result_json = None
    /\ error = NoError
    /\ input_files = None
    /\ previous_run = None
    /\ handlers = None
    /\ radar_generator = None

\* compute_raw_scores called on a placement map of the caller's choice
caller_compute_raw_scores ==
    /\ pc = "raw_scores"
    /\ \E signs \in CallerPlacements :
           /\ planet_signs' = signs
           /\ raw_scores' = RawScores(scores_data, PointNames, signs)
    /\ pc' = "weighted_scores"
    /\ UNCHANGED <<config, dynamic_weights, weighted_scores, animal_totals,
                   percentage_strength, true_false_table, result_json, error, outside>>

NextCaller ==
    \/ compute_dynamic_planet_weights
    \/ caller_compute_raw_scores
    \/ compute_weighted_scores

SpecCaller == InitCaller /\ [][NextCaller]_vars

(***************************************************************************)
(* Two invocations of the /analyze handler on the module-level analyzer,   *)
(* their steps interleaved.  Steps 1 to 7 of run_analysis work on the      *)
(* locals of the invocation and on the read-only tables, so they are one   *)
(* step here; generate_outputs and the handler's read-back go through the  *)
(* file outputs/result.json, which all invocations share.                  *)
(***************************************************************************)
Invocations == {1, 2}

\* combined_results as generate_outputs builds it from the tables of a run
\* on the placement map signs
PipelineResults(signs) ==
    LET dynamic == DynamicPlanetWeights(planet_weights, planet_multipliers, signs)
        raw == RawScores(scores_data, supported_planets, signs)
        weighted == WeightedScores(supported_planets, raw, dynamic)
        totals == AnimalTotals(sort_ties, weighted)
    IN [birth_chart |-> signs,
        planet_weights |-> dynamic,
        raw_scores |-> raw,
        weighted_scores |-> weighted,
        animal_totals |-> totals,
        top3_percentage_strength |->
            Top3PercentageStrength(supported_planets, weighted, totals),
        top3_true_false |->
            Top3TrueFalse(sort_ties, supported_planets, weighted, totals)]

\* the values of the server's radar_generator: None, or the generator
RadarGenerators == {None, <<"RadarChartGenerator">>}

\* radar_charts of a response: the path generate_top_animal_radar returned,
\* or the empty dict
RadarCharts(generated) ==
    IF generated THEN [top_animal_chart |-> "outputs/top_animal_radar.png"] ELSE <<>>

\* variant: the failure response carries the data of the result.json found
\* in the outputs directory
FailureResponseWithStoredData(type) ==
    [success |-> FALSE, message |-> "Analysis failed", error |-> type,
     data |-> IF result_json = None THEN None ELSE result_json.animal_totals]

\* the exception run_analysis raises after the chart is computed, or NoError
RunAnalysisRaises(signs) ==
    LET raised == DynamicWeightsRaises(planet_weights, planet_multipliers, signs)
    IN IF raised # NoError THEN raised
       ELSE IF RawScoresKeyError(scores_data) THEN "KeyError"
       ELSE NoError

\* AnalysisResponse(success=False, message="Analysis failed", error=str(e))
FailureResponse(type) ==
    [success |-> FALSE, message |-> "Analysis failed", error |-> type, data |-> None]

\* variant: total_animals_analyzed counts the entries of top_3_animals
SuccessResponseCountingTop3(results, radar_charts) ==
    LET totals == results.animal_totals
        top_3_animals == SubSeq(totals, 1, Min(TOP_ANIMALS, Len(totals)))
    IN [success |-> TRUE,
        message |-> "Analysis completed successfully",
        error |-> NoError,
        data |-> [birth_chart |-> results.birth_chart,
                  planet_weights |-> results.planet_weights,
                  top_3_animals |-> top_3_animals,
                  all_animals |-> totals,
                  total_animals_analyzed |-> Len(top_3_animals),
                  top_score |-> IF Len(top_3_animals) > 0
                                THEN top_3_animals[1].TOTAL_SCORE ELSE 0,
                  radar_charts |-> radar_charts]]

\* AnalysisResponse(success=True, ..., data=response_data) built from the
\* content of outputs/result.json and the radar charts of the request; the
\* birth_data echo of the request is left out
SuccessResponse(results, radar_charts) ==
    LET totals == results.animal_totals
        top_3_animals == SubSeq(totals, 1, Min(TOP_ANIMALS, Len(totals)))
    IN [success |-> TRUE,
        message |-> "Analysis completed successfully",
        error |-> NoError,
        data |-> [birth_chart |-> results.birth_chart,
                  planet_weights |-> results.planet_weights,
                  top_3_animals |-> top_3_animals,
                  all_animals |-> totals,
                  total_animals_analyzed |-> Len(totals),
                  top_score |-> IF Len(top_3_animals) > 0
                                THEN top_3_animals[1].TOTAL_SCORE ELSE 0,
                  radar_charts |-> radar_charts]]

InitApi ==
    /\ scores_data = ExampleAnimals
    /\ planet_weights = ExampleWeights
    /\ planet_multipliers = ExampleMultipliers
    /\ supported_planets = KeysInOrder(PointNames, DOMAIN ExampleWeights)
    /\ sort_ties \in SortKinds
    /\ pc = "serving"
    /\ planet_signs = None
    /\ dynamic_weights = None
    /\ raw_scores = None
    /\ weighted_scores = None
    /\ animal_totals = None
    /\ percentage_strength = None
    /\ true_false_table = None
    /\ result_json = None
    /\ error = NoError
    /\ input_files = None
    /\ previous_run = None
    /\ radar_generator \in RadarGenerators
    /\ handlers = [h \in Invocations |->
                      [pc |-> "received", planet_signs |-> None,
                       results |-> None, response |-> None]]

\* analyzer.run_analysis up to the call of generate_outputs: the chart engine
\* raises or returns the placement map of the request, the tables are computed
handler_run_analysis(h) ==
    /\ handlers[h].pc = "received"
    /\ \/ handlers' = [handlers EXCEPT ![h].pc = "responded",
                                        ![h].response = FailureResponse("ValueError")]
       \/ \E signs \in Charts(supported_planets) :
              LET raised == RunAnalysisRaises(signs)
              IN IF raised # NoError
                 THEN handlers' = [handlers EXCEPT ![h].pc = "responded",
                                                   ![h].planet_signs = signs,
                                                   ![h].response = FailureResponse(raised)]
                 ELSE handlers' = [handlers EXCEPT ![h].pc = "generate_outputs",
                                                   ![h].planet_signs = signs,
                                                   ![h].results = PipelineResults(signs)]
    /\ UNCHANGED <<config, pc, locals, result_json, error, input_files, previous_run, radar_generator>>

\* generate_outputs: the existing output files are removed
generate_outputs_remove(h) ==
    /\ handlers[h].pc = "generate_outputs"
    /\ result_json' = None
    /\ handlers' = [handlers EXCEPT ![h].pc = "write_result"]
    /\ UNCHANGED <<config, pc, locals, error, input_files, previous_run, radar_generator>>

\* generate_outputs: combined_results is written to outputs/result.json and
\* run_analysis returns
generate_outputs_write(h) ==
    /\ handlers[h].pc = "write_result"
    /\ result_json' = handlers[h].results
    /\ handlers' = [handlers EXCEPT ![h].pc = "read_result"]
    /\ UNCHANGED <<config, pc, locals, error, input_files, previous_run, radar_generator>>

\* the handler opens outputs/result.json and builds its response from what
\* the file holds and from the radar chart, which is generated or not; a
\* missing file ends in the failure response
handler_read_results(h) ==
    /\ handlers[h].pc = "read_result"
    /\ \E generated \in BOOLEAN :
           /\ generated => radar_generator # None
           /\ handlers' = [handlers EXCEPT
                              ![h].pc = "responded",
                              ![h].response =
                                  IF result_json = None
                                  THEN FailureResponse("FileNotFoundError")
                                  ELSE SuccessResponse(result_json, RadarCharts(generated))]
    /\ UNCHANGED <<config, pc, locals, result_json, error, input_files, previous_run, radar_generator>>

NextApi ==
    \E h \in Invocations :
        \/ handler_run_analysis(h)
        \/ generate_outputs_remove(h)
        \/ generate_outputs_write(h)
        \/ handler_read_results(h)

SpecApi == InitApi /\ [][NextApi]_vars

(***************************************************************************)
(* The API server from its start: the module constructs the analyzer from  *)
(* the input files (analyzer = None when the construction raises) and the  *)
(* radar generator, then serves requests one after another.  pc = "idle"   *)
(* when the analyzer is constructed and pc = "init_failed" when it is      *)
(* None; handlers holds the request being served: its number n, its        *)
(* endpoint, the position pc of its handler, the result.json found when it *)
(* arrived (before), the placement map, the exception raised inside the    *)
(* handler's try block, the results run_analysis computed, the outcome of  *)
(* the radar step of generate_outputs and of the handler, the response.    *)
(* A request reaches its handler only with a valid body; the validation of *)
(* the body is not followed.                                               *)
(***************************************************************************)
Endpoints ==
    {"/health", "/analyze", "/analyze-with-explanation", "/animals", "/planets",
     "/generate-radar-charts"}

\* the endpoints whose handler calls run_analysis
AnalysisEndpoints == {"/analyze", "/analyze-with-explanation", "/generate-radar-charts"}

\* a scores file of four animals, two of them with equal scores
FourAnimalsFile ==
    <<JsonAnimal("Fox", 80), JsonAnimal("Bear", 50), JsonAnimal("Cat", 30),
      JsonAnimal("Owl", 80)>>

\* a scores file with an empty list of animals
EmptyScoresFile == <<>>

\* the files the server is started on: a scores file that loads (two, four
\* or no animals) or lacks a name, a weights file with or without the
\* PlanetWeight row, the complete multipliers table or its ARIES row only
ServerInputFiles ==
    [scores_json : {GoodScoresFile, FourAnimalsFile, EmptyScoresFile,
                    [GoodScoresFile EXCEPT ![1] = WithoutKey(@, "ANIMAL")]},
     weights_csv : WeightsFiles,
     multipliers_csv : {MultipliersFile(AllBut(13, 13), <<"Sun", "Moon">>, TRUE),
                        MultipliersFile(<<1>>, <<"Sun", "Moon">>, TRUE)}]

\* str(e) of the ValueError convert_local_to_utc raises
ConvertError == "Error converting local time to UTC"

\* str(e) of the ValueError compute_birth_chart raises
ChartError == "Error computing birth chart"

\* str(e) of the exception generate_top_animal_radar raises
RadarError == "radar chart error"

\* HTTPException(status_code=500, detail=detail)
HTTPException(detail) == [status_code |-> 500, detail |-> detail]

\* variant: analyzer_ready is reported without looking at analyzer
HealthReportAlwaysReady ==
    [status |-> "healthy",
     analyzer_ready |-> TRUE,
     radar_generator_ready |-> radar_generator # None]

\* the dict /health returns, without its timestamp
HealthReport ==
    [status |-> "healthy",
     analyzer_ready |-> pc # "init_failed",
     radar_generator_ready |-> radar_generator # None]

\* the response of the except clause of an analysis endpoint
EndpointFailure(endpoint, message) ==
    CASE endpoint = "/analyze" -> FailureResponse(message)
      [] endpoint = "/analyze-with-explanation" ->
             [FailureResponse(message) EXCEPT !.message = "Analysis with explanation failed"]
      [] OTHER ->
             [success |-> FALSE, message |-> "Failed to generate radar charts",
              error |-> message]

\* variant: /analyze answers a failed radar chart with its failure response
AnalyzeOutcomeRadarFatal(results, generated) ==
    IF generated THEN SuccessResponse(results, RadarCharts(TRUE))
    ELSE FailureResponse(RadarError)

\* the response of /analyze after run_analysis has returned
AnalyzeOutcome(results, generated) == SuccessResponse(results, RadarCharts(generated))

\* the response of an analysis endpoint after run_analysis has returned,
\* built from the content of result.json; the explanation fields of
\* /analyze-with-explanation are left out
EndpointOutcome(endpoint, results, generated) ==
    CASE endpoint = "/analyze" -> AnalyzeOutcome(results, generated)
      [] endpoint = "/analyze-with-explanation" ->
             [SuccessResponse(results, RadarCharts(generated)) EXCEPT
                 !.message = "Analysis completed successfully (with explanation)"]
      [] OTHER ->
             IF generated
             THEN [success |-> TRUE,
                   message |-> "Radar charts generated successfully",
                   data |-> [top_animal |-> results.animal_totals[1],
                             radar_charts |-> RadarCharts(TRUE)]]
             ELSE EndpointFailure(endpoint, RadarError)

\* the handler record of a request that has just arrived
NewRequest(n, endpoint) ==
    [n |-> n, endpoint |-> endpoint, pc |-> "received", before |-> result_json,
     planet_signs |-> None, raised |-> NoError, results |-> None,
     radar_in_outputs |-> "none", radar_in_handler |-> "none", response |-> None]

InitServer ==
    /\ input_files \in ServerInputFiles
    /\ scores_data = None
    /\ planet_weights = None
    /\ planet_multipliers = None
    /\ supported_planets = None
    /\ sort_ties \in SortKinds
    /\ pc = "load_scores_json"
    /\ planet_signs = None
    /\ dynamic_weights = None
    /\ raw_scores = None
    /\ weighted_scores = None
    /\ animal_totals = None
    /\ percentage_strength = None
    /\ true_false_table = None
    /\ result_json = None
    /\ error = NoError
    /\ previous_run = None
    /\ radar_generator \in RadarGenerators
    /\ handlers = [NewRequest(0, "none") EXCEPT !.pc = "responded", !.before = None]

\* the server takes the next request once the last one is answered
receive_request ==
    /\ pc \in {"idle", "init_failed"}
    /\ handlers.pc = "responded"
    /\ handlers.n < MaxRequests
    /\ \E endpoint \in Endpoints : handlers' = NewRequest(handlers.n + 1, endpoint)
    /\ UNCHANGED <<config, pc, locals, result_json, error, input_files, previous_run,
                   radar_generator>>

\* GET /health
health_check ==
    /\ handlers.pc = "received"
    /\ handlers.endpoint = "/health"
    /\ handlers' = [handlers EXCEPT !.pc = "responded", !.response = HealthReport]
    /\ UNCHANGED <<config, pc, locals, result_json, error, input_files, previous_run,
                   radar_generator>>

\* GET /animals
get_available_animals ==
    /\ handlers.pc = "received"
    /\ handlers.endpoint = "/animals"
    /\ handlers' =
           [handlers EXCEPT
               !.pc = "responded",
               !.response =
                   IF pc = "init_failed"
                   THEN HTTPException("Analysis engine not available")
                   ELSE [animals |-> [i \in DOMAIN scores_data |-> scores_data[i].ANIMAL],
                         total_count |-> Len(scores_data)]]
    /\ UNCHANGED <<config, pc, locals, result_json, error, input_files, previous_run,
                   radar_generator>>

\* GET /planets
get_supported_planets ==
    /\ handlers.pc = "received"
    /\ handlers.endpoint = "/planets"
    /\ handlers' =
           [handlers EXCEPT
               !.pc = "responded",
               !.response =
                   IF pc = "init_failed"
                   THEN HTTPException("Analysis engine not available")
                   ELSE [planets |-> supported_planets,
                         total_count |-> Len(supported_planets)]]
    /\ UNCHANGED <<config, pc, locals, result_json, error, input_files, previous_run,
                   radar_generator>>

\* variant: the existing output files are removed before the chart is
\* computed, so a run that fails leaves the outputs directory without them
endpoint_run_analysis_removing_first ==
    /\ handlers.pc = "received"
    /\ handlers.endpoint \in AnalysisEndpoints
    /\ IF pc = "init_failed"
       THEN /\ handlers' = [handlers EXCEPT
                               !.pc = "responded",
                               !.response = HTTPException("Analysis engine not available")]
            /\ UNCHANGED result_json
       ELSE IF handlers.endpoint = "/generate-radar-charts" /\ radar_generator = None
       THEN /\ handlers' = [handlers EXCEPT
                               !.pc = "responded",
                               !.response =
                                   HTTPException("Radar chart generator not available")]
            /\ UNCHANGED result_json
       ELSE \/ /\ \E message \in {ConvertError, ChartError} :
                     handlers' = [handlers EXCEPT
                                     !.pc = "responded",
                                     !.raised = message,
                                     !.response = EndpointFailure(handlers.endpoint, message)]
               /\ result_json' = None
            \/ \E signs \in Charts(supported_planets) :
                   LET raised == RunAnalysisRaises(signs)
                   IN IF raised # NoError
                      THEN /\ handlers' =
                                  [handlers EXCEPT
                                      !.pc = "responded",
                                      !.planet_signs = signs,
                                      !.raised = raised,
                                      !.response = EndpointFailure(handlers.endpoint, raised)]
                           /\ result_json' = None
                      ELSE /\ handlers' = [handlers EXCEPT
                                              !.pc = "generate_outputs",
                                              !.planet_signs = signs,
                                              !.results = PipelineResults(signs)]
                           /\ result_json' = None
    /\ UNCHANGED <<config, pc, locals, error, input_files, previous_run, radar_generator>>

\* POST /analyze, /analyze-with-explanation, /generate-radar-charts, up to
\* the call of generate_outputs: the checks of analyzer and radar_generator,
\* then inside the try block convert_local_to_utc and the steps of
\* run_analysis, any of which may raise
endpoint_run_analysis ==
    /\ handlers.pc = "received"
    /\ handlers.endpoint \in AnalysisEndpoints
    /\ IF pc = "init_failed"
       THEN handlers' = [handlers EXCEPT
                            !.pc = "responded",
                            !.response = HTTPException("Analysis engine not available")]
       ELSE IF handlers.endpoint = "/generate-radar-charts" /\ radar_generator = None
       THEN handlers' = [handlers EXCEPT
                            !.pc = "responded",
                            !.response = HTTPException("Radar chart generator not available")]
       ELSE \/ \E message \in {ConvertError, ChartError} :
                   handlers' = [handlers EXCEPT
                                   !.pc = "responded",
                                   !.raised = message,
                                   !.response = EndpointFailure(handlers.endpoint, message)]
            \/ \E signs \in Charts(supported_planets) :
                   LET raised == RunAnalysisRaises(signs)
                   IN IF raised # NoError
                      THEN handlers' =
                               [handlers EXCEPT
                                   !.pc = "responded",
                                   !.planet_signs = signs,
                                   !.raised = raised,
                                   !.response = EndpointFailure(handlers.endpoint, raised)]
                      ELSE handlers' = [handlers EXCEPT
                                           !.pc = "generate_outputs",
                                           !.planet_signs = signs,
                                           !.results = PipelineResults(signs)]
    /\ UNCHANGED <<config, pc, locals, result_json, error, input_files, previous_run,
                   radar_generator>>

\* generate_outputs of the request's run: the output files are replaced,
\* result.json holds the combined results, then the radar chart is
\* generated or its failure is printed, and run_analysis returns
endpoint_generate_outputs ==
    /\ handlers.pc = "generate_outputs"
    /\ result_json' = handlers.results
    /\ \E outcome \in {"generated", "failed"} :
           handlers' = [handlers EXCEPT !.pc = "read_result", !.radar_in_outputs = outcome]
    /\ UNCHANGED <<config, pc, locals, error, input_files, previous_run, radar_generator>>

\* the handler reads result.json, has the radar chart generated if there is
\* a generator, and builds its response
endpoint_read_results ==
    /\ handlers.pc = "read_result"
    /\ \E generated \in BOOLEAN :
           /\ generated => radar_generator # None
           /\ handlers' =
                  [handlers EXCEPT
                      !.pc = "responded",
                      !.radar_in_handler = IF generated THEN "generated"
                                           ELSE IF radar_generator = None THEN "none"
                                           ELSE "failed",
                      !.raised = IF handlers.endpoint = "/generate-radar-charts" /\ ~generated
                                 THEN RadarError ELSE NoError,
                      !.response = EndpointOutcome(handlers.endpoint, result_json, generated)]
    /\ UNCHANGED <<config, pc, locals, result_json, error, input_files, previous_run,
                   radar_generator>>

NextServer ==
    \/ load_scores_json
    \/ load_planet_weights
    \/ load_planet_multipliers
    \/ receive_request
    \/ health_check
    \/ get_available_animals
    \/ get_supported_planets
    \/ endpoint_run_analysis
    \/ endpoint_generate_outputs
    \/ endpoint_read_results

SpecServer == InitServer /\ [][NextServer]_vars

(***************************************************************************)
(* Properties of the scoring pipeline.                                     *)
(***************************************************************************)
Steps ==
    <<"idle", "dynamic_weights", "raw_scores", "weighted_scores", "animal_totals",
      "percentage_strength", "true_false", "outputs", "done">>

StepIndex(step) == CHOOSE i \in DOMAIN Steps : Steps[i] = step

\* the call of the given step has returned in this run
Returned(step) == pc # "failed" /\ StepIndex(pc) > StepIndex(step)

RECURSIVE SumSeq(_, _)
\* sum of row[c] over the labels c of the sequence cols
SumSeq(row, cols) ==
    IF cols = <<>> THEN 0 ELSE row[Head(cols)] + SumSeq(row, Tail(cols))

\* row number, in the animal score table, of the animal with this name
TableRow(name) == CHOOSE i \in DOMAIN scores_data : scores_data[i].ANIMAL = name

\* is x the real number (w / m) * 100, for m > 0
IsPercentageOf(x, w, m) == x.den > 0 /\ x.num * m = w * 100 * x.den

\* C1: every column of the raw score matrix is scaled by its dynamic weight:
\* weighted[a][p] = raw[a][p] * dynamic_weights[p] for every animal a and
\* every column p of the raw matrix.
WeightedScoreIdentity ==
    Returned("weighted_scores") =>
        /\ weighted_scores.index = raw_scores.index
        /\ weighted_scores.columns = raw_scores.columns
        /\ \A i \in DOMAIN raw_scores.index : \A p \in Range(raw_scores.columns) :
               weighted_scores.cell[i][p] = raw_scores.cell[i][p] * dynamic_weights[p]

\* a weighted matrix in which the first supported planet is a column whose
\* scaled scores differ from the raw ones
WeightedScoreIdentityWitness ==
    /\ Returned("weighted_scores")
    /\ supported_planets[1] \in Range(raw_scores.columns)
    /\ \E i \in DOMAIN raw_scores.index :
           /\ raw_scores.cell[i][supported_planets[1]] > 0
           /\ weighted_scores.cell[i][supported_planets[1]]
                  # raw_scores.cell[i][supported_planets[1]] * 10

\* C2: the dynamic weights have an entry for exactly the placed points of
\* the weight table, and each is base weight times the multiplier of the
\* point in the sign it is placed in.
DynamicWeightsDefinition ==
    Returned("dynamic_weights") =>
        /\ DOMAIN dynamic_weights = DOMAIN planet_signs \cap DOMAIN planet_weights
        /\ \A p \in DOMAIN dynamic_weights :
               dynamic_weights[p] =
                   planet_weights[p] * planet_multipliers[planet_signs[p]][p]

\* dynamic weights of a chart that places points in two different signs
\* and leaves a supported point out
DynamicWeightsDefinitionWitness ==
    /\ Returned("dynamic_weights")
    /\ \E p, q \in DOMAIN dynamic_weights : planet_signs[p] # planet_signs[q]
    /\ DOMAIN dynamic_weights # DOMAIN planet_weights

\* C3: the raw score matrix has one row per animal in table order, one
\* column per placed point, and raw[a][p] is the score of animal a for the
\* sign p is placed in.
RawScoresDefinition ==
    Returned("raw_scores") =>
        /\ raw_scores.index = [i \in DOMAIN scores_data |-> scores_data[i].ANIMAL]
        /\ Range(raw_scores.columns) = DOMAIN planet_signs
        /\ Len(raw_scores.columns) = Cardinality(DOMAIN planet_signs)
        /\ \A i \in DOMAIN scores_data : \A p \in DOMAIN planet_signs :
               raw_scores.cell[i][p] = scores_data[i].scores[planet_signs[p]]

\* a raw matrix with two animals that score differently on the same point
RawScoresDefinitionWitness ==
    /\ Returned("raw_scores")
    /\ \E i, j \in DOMAIN raw_scores.index : \E p \in Range(raw_scores.columns) :
           /\ raw_scores.cell[i][p] > 0
           /\ raw_scores.cell[i][p] # raw_scores.cell[j][p]

\* C4: the animal totals have exactly one entry per animal of the weighted
\* matrix, and its TOTAL_SCORE is the sum of that animal's weighted scores
\* over all columns.
AnimalTotalsAreRowSums ==
    Returned("animal_totals") =>
        /\ Len(animal_totals) = Len(weighted_scores.index)
        /\ \A i \in DOMAIN weighted_scores.index :
               Cardinality({k \in DOMAIN animal_totals :
                               animal_totals[k].ANIMAL = weighted_scores.index[i]}) = 1
        /\ \A k \in DOMAIN animal_totals :
               \E i \in DOMAIN weighted_scores.index :
                   /\ weighted_scores.index[i] = animal_totals[k].ANIMAL
                   /\ animal_totals[k].TOTAL_SCORE =
                          SumSeq(weighted_scores.cell[i], weighted_scores.columns)

\* totals over at least two columns, with an animal whose total is larger
\* than each of its weighted scores
AnimalTotalsAreRowSumsWitness ==
    /\ Returned("animal_totals")
    /\ Len(weighted_scores.columns) >= 2
    /\ \E k \in DOMAIN animal_totals : \E i \in DOMAIN weighted_scores.index :
           /\ weighted_scores.index[i] = animal_totals[k].ANIMAL
           /\ \A p \in Range(weighted_scores.columns) :
                  animal_totals[k].TOTAL_SCORE > weighted_scores.cell[i][p]

\* C5: the animal totals are sorted by TOTAL_SCORE descending: of two
\* adjacent entries the earlier one's score is >= the later one's.
AnimalTotalsSortedDescending ==
    Returned("animal_totals") =>
        \A k \in 1..(Len(animal_totals) - 1) :
            animal_totals[k].TOTAL_SCORE >= animal_totals[k + 1].TOTAL_SCORE

\* totals in which the sort moved a later animal of the table in front of
\* an earlier one with a smaller total
AnimalTotalsSortedDescendingWitness ==
    /\ Returned("animal_totals")
    /\ \E k \in 1..(Len(animal_totals) - 1) :
           /\ animal_totals[k].TOTAL_SCORE > animal_totals[k + 1].TOTAL_SCORE
           /\ TableRow(animal_totals[k].ANIMAL) > TableRow(animal_totals[k + 1].ANIMAL)

\* C6: animals with equal total scores keep, in the animal totals, the
\* relative order they have in the animal score table (stable sort).
AnimalTotalsStable ==
    Returned("animal_totals") =>
        \A k, l \in DOMAIN animal_totals :
            (k < l /\ animal_totals[k].TOTAL_SCORE = animal_totals[l].TOTAL_SCORE)
                => TableRow(animal_totals[k].ANIMAL) < TableRow(animal_totals[l].ANIMAL)

\* C7: each cell of a top-3 animal a and a point p of the weighted matrix is
\* (weighted[a][p] / M_p) * 100, M_p being the maximum of column p over all
\* animals of the matrix, and 0 when M_p is 0.
PercentageOfColumnMaximum ==
    Returned("percentage_strength") =>
        \A k \in DOMAIN percentage_strength.index :
            \A p \in Range(weighted_scores.columns) :
                LET a == RowOf(weighted_scores, percentage_strength.index[k])
                    M == MaxOf({weighted_scores.cell[i][p] :
                                   i \in DOMAIN weighted_scores.index})
                    x == percentage_strength.cell[k][p]
                IN IF M = 0
                   THEN x.den > 0 /\ x.num = 0
                   ELSE IsPercentageOf(x, weighted_scores.cell[a][p], M)

\* a percentage table with a column whose maximum is reached by no animal
\* of the table, and a positive percentage in that column
PercentageOfColumnMaximumWitness ==
    /\ Returned("percentage_strength")
    /\ \E p \in Range(weighted_scores.columns) :
           /\ \A k \in DOMAIN percentage_strength.index :
                  weighted_scores.cell[RowOf(weighted_scores,
                                             percentage_strength.index[k])][p]
                      < MaxOf({weighted_scores.cell[i][p] :
                                  i \in DOMAIN weighted_scores.index})
           /\ \E k \in DOMAIN percentage_strength.index :
                  percentage_strength.cell[k][p].num > 0

\* C8: every cell of the percentage-strength table (each top-3 animal, each
\* column of the table) is a number in [0, 100].
PercentageBounds ==
    Returned("percentage_strength") =>
        \A k \in DOMAIN percentage_strength.index :
            \A p \in Range(percentage_strength.columns) :
                LET x == percentage_strength.cell[k][p]
                IN x.den > 0 /\ 0 <= x.num /\ x.num <= 100 * x.den

\* C9: a point whose weighted score is 0 for every animal gets percentage 0
\* for every top-3 animal; the computation completes and yields no
\* undefined value for it.
ZeroColumnYieldsZero ==
    Returned("percentage_strength") =>
        \A p \in Range(weighted_scores.columns) :
            (\A i \in DOMAIN weighted_scores.index : weighted_scores.cell[i][p] = 0)
                => \A k \in DOMAIN percentage_strength.index :
                       percentage_strength.cell[k][p] = [num |-> 0, den |-> 1]

\* a percentage table computed from a weighted matrix with an all-zero
\* column next to a column that is not all zero
ZeroColumnYieldsZeroWitness ==
    /\ Returned("percentage_strength")
    /\ Len(percentage_strength.index) = TOP_ANIMALS
    /\ \E p, q \in Range(weighted_scores.columns) :
           /\ \A i \in DOMAIN weighted_scores.index : weighted_scores.cell[i][p] = 0
           /\ \E i \in DOMAIN weighted_scores.index : weighted_scores.cell[i][q] > 0

\* C10: each row of the true/false table has min(6, number of columns of
\* the weighted matrix) true flags.
TrueFlagCount ==
    Returned("true_false") =>
        \A k \in DOMAIN true_false_table.index :
            Cardinality({p \in Range(true_false_table.columns) :
                            true_false_table.cell[k][p]})
                = Min(6, Len(weighted_scores.columns))

\* a true/false table over more than 6 points in which an animal's sixth
\* and seventh highest scores are equal
TrueFlagCountWitness ==
    /\ Returned("true_false")
    /\ Len(weighted_scores.columns) > 6
    /\ \E k \in DOMAIN true_false_table.index :
           \E p, q \in Range(weighted_scores.columns) :
               LET a == RowOf(weighted_scores, true_false_table.index[k])
               IN /\ true_false_table.cell[k][p]
                  /\ ~true_false_table.cell[k][q]
                  /\ weighted_scores.cell[a][p] = weighted_scores.cell[a][q]

\* number of columns of the animal's row that rank before column p when
\* the row is ordered by score descending and equal scores by column order
RankedBefore(df, i, p) ==
    LET cols == df.columns
        at(q) == CHOOSE c \in DOMAIN cols : cols[c] = q
    IN Cardinality({q \in Range(cols) :
                       \/ df.cell[i][q] > df.cell[i][p]
                       \/ df.cell[i][q] = df.cell[i][p] /\ at(q) < at(p)})

\* C11: the flag of a top-3 animal and a point is true iff the point is among
\* the 6 highest of that animal's own weighted scores, equal scores being
\* ranked by point iteration order (earlier point first).
TrueFlagsAreTopSix ==
    Returned("true_false") =>
        \A k \in DOMAIN true_false_table.index :
            \A p \in Range(true_false_table.columns) :
                true_false_table.cell[k][p] <=>
                    /\ p \in Range(weighted_scores.columns)
                    /\ RankedBefore(weighted_scores,
                                    RowOf(weighted_scores, true_false_table.index[k]),
                                    p) < 6

IsExampleRun ==
    /\ planet_weights = ExampleWeights
    /\ planet_multipliers = ExampleMultipliers
    /\ scores_data = ExampleAnimals
    /\ pc # "idle"
    /\ DOMAIN planet_signs = {"Sun", "Moon"}
    /\ \A p \in DOMAIN planet_signs : planet_signs[p] = "ARIES"

\* C13: with weights Sun 23, Moon 15, ARIES multipliers Sun 1.2, Moon 0.9,
\* both points in ARIES and the animals Fox (ARIES 80) and Bear (ARIES 50),
\* the dynamic weights are Sun 27.6, Moon 13.5, the raw scores Fox 80/80 and
\* Bear 50/50, the weighted scores Fox 2208/1080 and Bear 1380/675 and the
\* totals Fox 3288 then Bear 2055 (weights, weighted scores and totals are
\* written in tenths).
WorkedExample ==
    IsExampleRun =>
        /\ pc # "failed"
        /\ Returned("dynamic_weights") =>
               /\ DOMAIN dynamic_weights = {"Sun", "Moon"}
               /\ dynamic_weights["Sun"] = 276
               /\ dynamic_weights["Moon"] = 135
        /\ Returned("raw_scores") =>
               /\ raw_scores.index = <<"Fox", "Bear">>
               /\ raw_scores.columns = <<"Sun", "Moon">>
               /\ raw_scores.cell[1]["Sun"] = 80 /\ raw_scores.cell[1]["Moon"] = 80
               /\ raw_scores.cell[2]["Sun"] = 50 /\ raw_scores.cell[2]["Moon"] = 50
        /\ Returned("weighted_scores") =>
               /\ weighted_scores.index = <<"Fox", "Bear">>
               /\ weighted_scores.columns = <<"Sun", "Moon">>
               /\ weighted_scores.cell[1]["Sun"] = 22080
               /\ weighted_scores.cell[1]["Moon"] = 10800
               /\ weighted_scores.cell[2]["Sun"] = 13800
               /\ weighted_scores.cell[2]["Moon"] = 6750
        /\ Returned("animal_totals") =>
               animal_totals = <<[ANIMAL |-> "Fox", TOTAL_SCORE |-> 32880],
                                 [ANIMAL |-> "Bear", TOTAL_SCORE |-> 20550]>>

\* the worked example has run to its end
WorkedExampleWitness ==
    /\ IsExampleRun
    /\ pc = "done"
    /\ Len(animal_totals) = 2

\* C14: two invocations of /analyze whose steps interleave do not
\* interfere: the response each one delivers is the success response built
\* from the tables of its own run (its own birth chart, animal totals, top 3
\* and percentage strength).
InvocationsDoNotInterfere ==
    \A h \in Invocations :
        (handlers[h].pc = "responded" /\ handlers[h].results # None)
            => \E generated \in BOOLEAN :
                   handlers[h].response =
                       SuccessResponse(handlers[h].results, RadarCharts(generated))

\* the construction has ended without an error
Constructed == pc = "idle" /\ input_files # None

\* C15: an analyzer constructed from a multiplier table has, in its table,
\* a row for every sign and in each row an entry for every point of the
\* weight table: a table that lacks one makes the construction fail.
MultipliersCompleteAfterLoad ==
    Constructed =>
        \A sign \in Range(ZODIAC_SIGNS) :
            /\ sign \in DOMAIN planet_multipliers
            /\ \A p \in DOMAIN planet_weights : p \in DOMAIN planet_multipliers[sign]

\* is x a number in [0, 100]
InRange(x) == ~x.nan /\ 0 <= x.value /\ x.value <= 100

\* C20: once _load_scores_json has returned, every animal of the file has its
\* name, all 12 signs, and for each sign a score in [0, 100]: a file with an
\* animal that lacks one of them makes the load fail.
ScoresValidAfterLoad ==
    (pc \in {"load_planet_weights", "load_planet_multipliers"} \/ Constructed) =>
        \A i \in DOMAIN input_files.scores_json :
            LET animal == input_files.scores_json[i]
            IN /\ "ANIMAL" \in DOMAIN animal
               /\ \A sign \in Range(ZODIAC_SIGNS) :
                      sign \in DOMAIN animal /\ InRange(animal[sign])

\* the placement map of the run gives a point of the weight table a sign
\* for which the multiplier table has no entry for that point
PlacedWithoutMultiplier ==
    \E p \in DOMAIN planet_signs \cap DOMAIN planet_weights :
        \/ planet_signs[p] \notin DOMAIN planet_multipliers
        \/ p \notin DOMAIN planet_multipliers[planet_signs[p]]

DynamicWeightsCalled == pc = "raw_scores" \/ (pc = "failed" /\ raw_scores = None)

\* C17: a point of the placement map that is absent from the weight table is
\* skipped: compute_dynamic_planet_weights raises no error and returns the
\* dynamic weights of the other points.
UnweightedPointsSkipped ==
    (/\ DynamicWeightsCalled
     /\ \E p \in DOMAIN planet_signs : p \notin DOMAIN planet_weights
     /\ ~PlacedWithoutMultiplier) =>
        /\ pc = "raw_scores"
        /\ error = NoError
        /\ DOMAIN dynamic_weights = DOMAIN planet_signs \cap DOMAIN planet_weights

\* C18: compute_weighted_scores returns a weighted matrix only if every
\* column of the raw matrix has a dynamic weight; with a column that has
\* none it fails and returns nothing.
WeightedRequiresDynamicWeight ==
    pc = "animal_totals" =>
        \A p \in Range(raw_scores.columns) : p \in DOMAIN dynamic_weights

\* compute_raw_scores has been called on planet_signs
RawScoresCalled ==
    pc \in {"weighted_scores", "animal_totals"} \/ (pc = "failed" /\ raw_scores # None)

\* C19: compute_raw_scores returns a matrix with a row for every animal and
\* a column for every placed point; the cell of an animal whose record lacks
\* the sign of the point is 0, every other cell is the animal's score.
MissingSignYieldsZero ==
    RawScoresCalled =>
        /\ raw_scores.index = [i \in DOMAIN scores_data |-> scores_data[i].ANIMAL]
        /\ Range(raw_scores.columns) = DOMAIN planet_signs
        /\ Len(raw_scores.columns) = Cardinality(DOMAIN planet_signs)
        /\ \A i \in DOMAIN scores_data : \A p \in DOMAIN planet_signs :
               raw_scores.cell[i][p] =
                   IF planet_signs[p] \in DOMAIN scores_data[i].scores
                   THEN scores_data[i].scores[planet_signs[p]]
                   ELSE 0

\* a raw matrix for a placement map with a point in a sign no animal has a
\* score for, next to a point with positive scores
MissingSignYieldsZeroWitness ==
    /\ RawScoresCalled
    /\ \E p, q \in Range(raw_scores.columns) :
           /\ \A i \in DOMAIN scores_data : planet_signs[p] \notin DOMAIN scores_data[i].scores
           /\ \A i \in DOMAIN scores_data : raw_scores.cell[i][p] = 0
           /\ \A i \in DOMAIN scores_data : raw_scores.cell[i][q] > 0

\* C21: once _load_scores_json has returned, the names of the loaded
\* animals are pairwise distinct: a file with two records of one name makes
\* the load fail.
NamesDistinctAfterLoad ==
    (pc \in {"load_planet_weights", "load_planet_multipliers"} \/ Constructed) =>
        \A i, j \in DOMAIN scores_data :
            i # j => scores_data[i].ANIMAL # scores_data[j].ANIMAL

\* C24: in every state of two successive runs of the pipeline the animal
\* score table, the weight table and the multiplier table are the tables the
\* analyzer was constructed with.
TablesNeverMutated ==
    /\ scores_data = AnimalTable(1)
    /\ planet_weights = WeightTable
    /\ planet_multipliers = MultiplierTable

\* the second run has written its outputs, each of the eight operations
\* having run twice on a chart that places a point
TablesNeverMutatedWitness ==
    /\ previous_run # None
    /\ pc = "done"
    /\ DOMAIN planet_signs # {}
    /\ TablesNeverMutated

\* compute_birth_chart has returned a placement map in this run (a run it
\* ended has the error ValueError)
BirthChartReturned == pc # "idle" /\ ~(pc = "failed" /\ error = "ValueError")

\* C25: the placement map compute_birth_chart has returned has only points
\* of the weight table as keys and one of the twelve signs as the value of
\* each key; a point the engine could not resolve has no key.
PlacementMapShape ==
    BirthChartReturned =>
        /\ DOMAIN planet_signs \subseteq DOMAIN planet_weights
        /\ \A p \in DOMAIN planet_signs : planet_signs[p] \in Range(ZODIAC_SIGNS)

\* a returned chart that places one point and leaves another one out
PlacementMapShapeWitness ==
    /\ pc = "dynamic_weights"
    /\ DOMAIN planet_signs # {}
    /\ DOMAIN planet_weights \ DOMAIN planet_signs # {}
    /\ PlacementMapShape

\* the names of the first min(3, n) entries of the animal totals, in order
FirstOfTotals ==
    [k \in 1..Min(3, Len(animal_totals)) |-> animal_totals[k].ANIMAL]

\* C27: the rows of the percentage-strength table and of the true/false
\* table are the first min(3, n) animals of the animal totals, in the order
\* of the totals, and the two tables have the same rows.
TopThreeRows ==
    /\ Returned("percentage_strength") => percentage_strength.index = FirstOfTotals
    /\ Returned("true_false") =>
           /\ true_false_table.index = FirstOfTotals
           /\ true_false_table.index = percentage_strength.index

\* both tables are computed for more than three animals, and the three
\* rows are not the first three animals of the score table
TopThreeRowsWitness ==
    /\ Returned("true_false")
    /\ Len(animal_totals) > 3
    /\ Len(percentage_strength.index) = 3
    /\ percentage_strength.index # [k \in 1..3 |-> scores_data[k].ANIMAL]
    /\ TopThreeRows

\* the request being served went to the given endpoint and is answered
Answered(endpoint) ==
    handlers.n > 0 /\ handlers.pc = "responded" /\ handlers.endpoint = endpoint

\* C22: a request whose run_analysis failed in the chart computation or in
\* a scoring step leaves result.json as the request found it, and an
\* answered request has left result.json either as it found it or holding
\* the complete results of its run.
NoOutputOnFailedRun ==
    /\ (handlers.pc = "responded" /\ handlers.raised \in {ChartError, "KeyError"})
           => result_json = handlers.before
    /\ handlers.pc = "responded" =>
           \/ result_json = handlers.before
           \/ handlers.results # None /\ result_json = handlers.results

\* a run that failed with a missing multiplier after an earlier request had
\* written result.json, which is still in place
NoOutputOnFailedRunWitness ==
    /\ handlers.pc = "responded"
    /\ handlers.raised = "KeyError"
    /\ handlers.before # None
    /\ result_json = handlers.before

\* C23: an /analyze request whose timezone conversion or chart computation
\* raised is answered with success = false, the message "Analysis failed",
\* the message of the exception as error, and no data.
AnalyzeFailureOutcome ==
    (Answered("/analyze") /\ handlers.raised \in {ConvertError, ChartError})
        => handlers.response =
               [success |-> FALSE, message |-> "Analysis failed",
                error |-> handlers.raised, data |-> None]

\* the chart computation of an /analyze request failed while the outputs
\* directory held the result.json of an earlier request
AnalyzeFailureOutcomeWitness ==
    /\ Answered("/analyze")
    /\ handlers.raised = ChartError
    /\ result_json # None
    /\ handlers.response.data = None

\* C26: in the response of an /analyze request whose run succeeded,
\* top_3_animals is the first min(3, n) entries of all_animals, each entry
\* has an ANIMAL and a TOTAL_SCORE, total_animals_analyzed is the length of
\* all_animals and top_score is the TOTAL_SCORE of the first entry, or 0
\* when all_animals is empty.
AnalyzeResponseShape ==
    (Answered("/analyze") /\ handlers.results # None) =>
        LET data == handlers.response.data
            n == Len(data.all_animals)
        IN /\ handlers.response.success
           /\ data.top_3_animals = [k \in 1..Min(3, n) |-> data.all_animals[k]]
           /\ \A k \in DOMAIN data.all_animals :
                  DOMAIN data.all_animals[k] = {"ANIMAL", "TOTAL_SCORE"}
           /\ data.total_animals_analyzed = n
           /\ data.top_score = IF n > 0 THEN data.all_animals[1].TOTAL_SCORE ELSE 0

\* a response that lists four animals, three of them as top_3_animals
AnalyzeResponseShapeWitness ==
    /\ Answered("/analyze")
    /\ handlers.results # None
    /\ Len(handlers.response.data.all_animals) = 4
    /\ Len(handlers.response.data.top_3_animals) = 3
    /\ handlers.response.data.total_animals_analyzed = 4

\* C28: once the construction of the analyzer has failed, /health reports
\* analyzer_ready = FALSE, a request to any other endpoint is answered with
\* HTTP 500, no request computes a chart or results, and result.json is
\* never written.
EngineUnavailable ==
    pc = "init_failed" =>
        /\ result_json = None
        /\ handlers.planet_signs = None
        /\ handlers.results = None
        /\ handlers.pc \in {"received", "responded"}
        /\ Answered("/health") => ~handlers.response.analyzer_ready
        /\ \A endpoint \in Endpoints \ {"/health"} :
               Answered(endpoint) =>
                   handlers.response =
                       [status_code |-> 500, detail |-> "Analysis engine not available"]

\* the second request to a server without analyzer, an /analyze request,
\* is rejected
EngineUnavailableWitness ==
    /\ pc = "init_failed"
    /\ handlers.n > 1
    /\ Answered("/analyze")
    /\ handlers.response.status_code = 500

\* C29: when the radar chart of generate_outputs fails, result.json holds
\* the results of the run and the handler goes on to read it; when the
\* radar chart of an /analyze handler fails, the response has success =
\* true, the score data of the run and an empty radar_charts.
RadarFailureNotFatal ==
    /\ handlers.radar_in_outputs = "failed" =>
           /\ handlers.pc \in {"read_result", "responded"}
           /\ result_json = handlers.results
           /\ handlers.raised \in {NoError, RadarError}
    /\ (Answered("/analyze") /\ handlers.radar_in_handler = "failed") =>
           /\ handlers.response.success
           /\ handlers.response.data.radar_charts = <<>>
           /\ handlers.response.data.birth_chart = handlers.results.birth_chart
           /\ handlers.response.data.planet_weights = handlers.results.planet_weights
           /\ handlers.response.data.all_animals = handlers.results.animal_totals

\* an /analyze request is answered successfully although the radar chart
\* failed both in generate_outputs and in the handler
RadarFailureNotFatalWitness ==
    /\ Answered("/analyze")
    /\ handlers.radar_in_outputs = "failed"
    /\ handlers.radar_in_handler = "failed"
    /\ handlers.response.success
    /\ handlers.response.data.radar_charts = <<>>

====
